---- MODULE Spec2Model ----
(***************************************************************************)
(* CPU scheduling simulator (src/code.cpp): FCFS, non-preemptive SJF,      *)
(* non-preemptive Priority, SRTF and Round Robin, each with the Gantt      *)
(* trace (timeline, blocks) it hands to printResults.                      *)
(*                                                                         *)
(* Conventions.  C++ vectors are TLA+ sequences, so the C++ index i is the *)
(* TLA+ index i + 1 and the C++ "no index" value -1 is NoIdx = 0.  One     *)
(* action is one iteration of a scheduler's loop.                          *)
(***************************************************************************)
EXTENDS Integers, Sequences, FiniteSets, TLC

\* ---------------------------------------------------------------- bounds
MaxN == 2         \* processes in a run
MaxAT == 2        \* largest arrival time
MaxBT == 3        \* largest burst time
MaxPri == 1       \* largest priority value
MaxQuantum == 2   \* largest Round Robin quantum

\* ------------------------------------------------------------- constants
INT_MAX == 2147483647
NoIdx == 0
IDLE == "IDLE"
NoBlock == ""

VARIABLES
    pc,                  \* "main", the running scheduler, "done" or "crashed"
    choice,              \* algorithm selector read by main
    quantum,             \* Round Robin time quantum (0 when not read)
    procs,               \* vector<Process>: the scheduler's working copy
    time,
    completedCount,
    completed,           \* vector<bool> of SJF / PriorityScheduling
    idx,                 \* idx / shortest_idx / current_proc_idx of the last iteration
    it,                  \* position of FCFS's range-for
    timeline,
    blocks,
    last_block_id,
    readyQueue,
    inQueue,
    next_proc_to_arrive,
    pid_to_idx_size,     \* length of RoundRobin's pid_to_idx
    oob,                 \* a write past the end of pid_to_idx happened
    broke,               \* the main loop was left through a 'break'
    final_timeline,      \* the trace passed to printResults
    final_blocks,
    idleTime             \* printResults' idle time

vars == <<pc, choice, quantum, procs, time, completedCount, completed, idx, it,
          timeline, blocks, last_block_id, readyQueue, inQueue,
          next_proc_to_arrive, pid_to_idx_size, oob, broke,
          final_timeline, final_blocks, idleTime>>

\* ------------------------------------------------------------- helpers
Last(s) == s[Len(s)]

\* Variant of Min: the first argument, whatever the second.
Min_Left(a, b) == a

Min(a, b) == IF a < b THEN a ELSE b

\* "P" + to_string(pid)
BlockId(pid) == "P" \o ToString(pid)

\* Process::Process(id, a, b, p)
Process(id, a, b, p) ==
    [pid |-> id, at |-> a, bt |-> b, rem_bt |-> b, priority |-> p,
     ct |-> 0, tat |-> 0, wt |-> 0]

\* Variant of Finalize: the waiting time is not reduced by the burst.
Finalize_WaitIsTurnaround(p, t) ==
    [p EXCEPT !.ct = t, !.tat = t - p.at, !.wt = t - p.at]

\* The metric assignments made when a process completes at clock t.
Finalize(p, t) ==
    [p EXCEPT !.ct = t, !.tat = t - p.at, !.wt = (t - p.at) - p.bt]

\* std::sort with the comparator a.at < b.at: some permutation ordered by
\* arrival.  std::sort is not stable, so the order of equal arrivals is any.
Perms(n) ==
    {s \in [1..n -> 1..n] : \A i, j \in 1..n : i # j => s[i] # s[j]}

SortByAT(P) ==
    {[i \in 1..Len(P) |-> P[s[i]]] : s \in
        {s \in Perms(Len(P)) :
            \A i, j \in 1..Len(P) : i < j => ~(P[s[j]].at < P[s[i]].at)}}

\* std::sort with the comparator a.pid < b.pid; pids are unique.
SortByPid(P) ==
    CHOOSE Q \in {[i \in 1..Len(P) |-> P[s[i]]] : s \in Perms(Len(P))} :
        \A i, j \in 1..Len(Q) : i < j => Q[i].pid < Q[j].pid

\* printResults' idle time: timeline[i+1] - timeline[i] over the IDLE blocks.
RECURSIVE IdleSum(_, _, _)
IdleSum(tl, bl, i) ==
    IF i > Len(bl) THEN 0
    ELSE (IF bl[i] = IDLE /\ i + 1 <= Len(tl) THEN tl[i + 1] - tl[i] ELSE 0)
         + IdleSum(tl, bl, i + 1)

\* ---------------------------------------------------------------- Init
\* main has read a valid batch: pids 1..n in input order.  The priority is
\* read by PriorityScheduling only, so it is varied for that choice only.
Init ==
    /\ pc = "main"
    /\ choice \in 1..5
    /\ quantum \in (IF choice = 5 THEN 1..MaxQuantum ELSE {0})
    /\ \E n \in 1..MaxN :
         \E a \in [1..n -> 0..MaxAT], b \in [1..n -> 1..MaxBT],
            p \in [1..n -> (IF choice = 3 THEN 0..MaxPri ELSE {0})] :
              procs = [i \in 1..n |-> Process(i, a[i], b[i], p[i])]
    /\ time = 0
    /\ completedCount = 0
    /\ completed = <<>>
    /\ idx = NoIdx
    /\ it = 1
    /\ timeline = <<>>
    /\ blocks = <<>>
    /\ last_block_id = NoBlock
    /\ readyQueue = <<>>
    /\ inQueue = <<>>
    /\ next_proc_to_arrive = 1
    /\ pid_to_idx_size = 0
    /\ oob = FALSE
    /\ broke = FALSE
    /\ final_timeline = <<>>
    /\ final_blocks = <<>>
    /\ idleTime = 0

\* printResults(procs, tl, bl, name): sorts by pid, sums the idle time.
PrintResults(tl, bl) ==
    /\ procs' = SortByPid(procs)
    /\ final_timeline' = tl
    /\ final_blocks' = bl
    /\ idleTime' = IdleSum(tl, bl, 1)
    /\ pc' = "done"

\* ---------------------------------------------------------------- FCFS
FCFS_Begin ==
    /\ pc = "main" /\ choice = 1
    /\ procs' \in SortByAT(procs)
    /\ time' = 0
    /\ timeline' = <<0>>
    /\ blocks' = <<>>
    /\ it' = 1
    /\ pc' = "FCFS"
    /\ UNCHANGED <<choice, quantum, completedCount, completed, idx, last_block_id,
                   readyQueue, inQueue, next_proc_to_arrive, pid_to_idx_size,
                   oob, broke, final_timeline, final_blocks, idleTime>>

\* one iteration of 'for (auto &p : procs)'
FCFS_Step ==
    /\ pc = "FCFS" /\ it <= Len(procs)
    /\ LET p == procs[it]
           idle == p.at > time
           start == IF idle THEN p.at ELSE time
           end == start + p.bt
       IN /\ blocks' = (IF idle THEN Append(blocks, IDLE) ELSE blocks)
                         \o <<BlockId(p.pid)>>
          /\ timeline' = (IF idle THEN Append(timeline, start) ELSE timeline)
                         \o <<end>>
          /\ time' = end
          /\ procs' = [procs EXCEPT ![it] = Finalize(p, end)]
    /\ it' = it + 1
    /\ UNCHANGED <<pc, choice, quantum, completedCount, completed, idx, last_block_id,
                   readyQueue, inQueue, next_proc_to_arrive, pid_to_idx_size,
                   oob, broke, final_timeline, final_blocks, idleTime>>

FCFS_End ==
    /\ pc = "FCFS" /\ it > Len(procs)
    /\ PrintResults(timeline, blocks)
    /\ UNCHANGED <<choice, quantum, time, completedCount, completed, idx, it,
                   timeline, blocks, last_block_id, readyQueue, inQueue,
                   next_proc_to_arrive, pid_to_idx_size, oob, broke>>

\* ------------------------------------------------ SJF (non-preemptive)
\* Variant of SJF_Visit: an equal arrival also replaces the candidate.
SJF_Visit_TieLatest(P, done, t, i, acc) ==
    IF ~done[i] /\ P[i].at <= t
    THEN IF P[i].bt < acc.min
         THEN [idx |-> i, min |-> P[i].bt]
         ELSE IF P[i].bt = acc.min /\ acc.idx # NoIdx /\ P[i].at <= P[acc.idx].at
              THEN [acc EXCEPT !.idx = i]
              ELSE acc
    ELSE acc

\* The body of SJF's selection loop for index i; acc = [idx, min].
SJF_Visit(P, done, t, i, acc) ==
    IF ~done[i] /\ P[i].at <= t
    THEN IF P[i].bt < acc.min
         THEN [idx |-> i, min |-> P[i].bt]
         ELSE IF P[i].bt = acc.min /\ acc.idx # NoIdx /\ P[i].at < P[acc.idx].at
              THEN [acc EXCEPT !.idx = i]
              ELSE acc
    ELSE acc

RECURSIVE SJF_Scan(_, _, _, _, _)
SJF_Scan(P, done, t, i, acc) ==
    IF i > Len(P) THEN acc.idx
    ELSE SJF_Scan(P, done, t, i + 1, SJF_Visit(P, done, t, i, acc))

SJF_Select(P, done, t) == SJF_Scan(P, done, t, 1, [idx |-> NoIdx, min |-> INT_MAX])

\* Variant of NextArrival: completed processes are searched too.
RECURSIVE NextArrival_AllProcs(_, _, _, _)
NextArrival_AllProcs(P, done, i, acc) ==
    IF i > Len(P) THEN acc
    ELSE NextArrival_AllProcs(P, done, i + 1, Min(acc, P[i].at))

\* The idle branch's search: min arrival over the uncompleted processes.
RECURSIVE NextArrival(_, _, _, _)
NextArrival(P, done, i, acc) ==
    IF i > Len(P) THEN acc
    ELSE NextArrival(P, done, i + 1, IF ~done[i] THEN Min(acc, P[i].at) ELSE acc)

\* SJF and PriorityScheduling share their prologue.
NP_Begin(name) ==
    /\ completed' = [i \in 1..Len(procs) |-> FALSE]
    /\ time' = 0
    /\ completedCount' = 0
    /\ timeline' = <<0>>
    /\ blocks' = <<>>
    /\ pc' = name
    /\ UNCHANGED <<choice, quantum, procs, idx, it, last_block_id, readyQueue,
                   inQueue, next_proc_to_arrive, pid_to_idx_size, oob, broke,
                   final_timeline, final_blocks, idleTime>>

\* Variant of NP_Dispatch: the time mark is pushed before the clock advances.
NP_Dispatch_MarkBeforeAdvance(sel) ==
    /\ idx' = sel
    /\ blocks' = Append(blocks, BlockId(procs[sel].pid))
    /\ time' = time + procs[sel].bt
    /\ timeline' = Append(timeline, time)
    /\ procs' = [procs EXCEPT ![sel] = Finalize(procs[sel], time + procs[sel].bt)]
    /\ completed' = [completed EXCEPT ![sel] = TRUE]
    /\ completedCount' = completedCount + 1
    /\ UNCHANGED <<pc, choice, quantum, it, last_block_id, readyQueue, inQueue,
                   next_proc_to_arrive, pid_to_idx_size, oob, broke,
                   final_timeline, final_blocks, idleTime>>

\* ... their execute branch, for the selected index sel
NP_Dispatch(sel) ==
    /\ idx' = sel
    /\ blocks' = Append(blocks, BlockId(procs[sel].pid))
    /\ time' = time + procs[sel].bt
    /\ timeline' = Append(timeline, time + procs[sel].bt)
    /\ procs' = [procs EXCEPT ![sel] = Finalize(procs[sel], time + procs[sel].bt)]
    /\ completed' = [completed EXCEPT ![sel] = TRUE]
    /\ completedCount' = completedCount + 1
    /\ UNCHANGED <<pc, choice, quantum, it, last_block_id, readyQueue, inQueue,
                   next_proc_to_arrive, pid_to_idx_size, oob, broke,
                   final_timeline, final_blocks, idleTime>>

\* ... their idle branch, 'break' included
NP_Idle ==
    /\ idx' = NoIdx
    /\ LET next_arrival_time == NextArrival(procs, completed, 1, INT_MAX)
       IN IF next_arrival_time # INT_MAX
          THEN /\ blocks' = Append(blocks, IDLE)
               /\ time' = next_arrival_time
               /\ timeline' = Append(timeline, next_arrival_time)
               /\ UNCHANGED <<pc, broke, procs, final_timeline, final_blocks, idleTime>>
          ELSE /\ broke' = TRUE
               /\ PrintResults(timeline, blocks)
               /\ UNCHANGED <<blocks, time, timeline>>
    /\ UNCHANGED <<choice, quantum, completedCount, completed, it, last_block_id,
                   readyQueue, inQueue, next_proc_to_arrive, pid_to_idx_size, oob>>

\* ... and their epilogue: the loop condition fails, printResults is called.
NP_End ==
    /\ completedCount >= Len(procs)
    /\ PrintResults(timeline, blocks)
    /\ UNCHANGED <<choice, quantum, time, completedCount, completed, idx, it,
                   timeline, blocks, last_block_id, readyQueue, inQueue,
                   next_proc_to_arrive, pid_to_idx_size, oob, broke>>

SJF_Begin == pc = "main" /\ choice = 2 /\ NP_Begin("SJF")

SJF_Dispatch ==
    /\ pc = "SJF" /\ completedCount < Len(procs)
    /\ SJF_Select(procs, completed, time) # NoIdx
    /\ NP_Dispatch(SJF_Select(procs, completed, time))

SJF_Idle ==
    /\ pc = "SJF" /\ completedCount < Len(procs)
    /\ SJF_Select(procs, completed, time) = NoIdx
    /\ NP_Idle

SJF_End == pc = "SJF" /\ NP_End

\* ------------------------------------- PriorityScheduling (non-preemptive)
\* Variant of Priority_Visit: an equal arrival also replaces the candidate.
Priority_Visit_TieLatest(P, done, t, i, acc) ==
    IF ~done[i] /\ P[i].at <= t
    THEN IF P[i].priority < acc.min
         THEN [idx |-> i, min |-> P[i].priority]
         ELSE IF P[i].priority = acc.min /\ acc.idx # NoIdx /\ P[i].at <= P[acc.idx].at
              THEN [acc EXCEPT !.idx = i]
              ELSE acc
    ELSE acc

\* The body of PriorityScheduling's selection loop for index i.
Priority_Visit(P, done, t, i, acc) ==
    IF ~done[i] /\ P[i].at <= t
    THEN IF P[i].priority < acc.min
         THEN [idx |-> i, min |-> P[i].priority]
         ELSE IF P[i].priority = acc.min /\ acc.idx # NoIdx /\ P[i].at < P[acc.idx].at
              THEN [acc EXCEPT !.idx = i]
              ELSE acc
    ELSE acc

RECURSIVE Priority_Scan(_, _, _, _, _)
Priority_Scan(P, done, t, i, acc) ==
    IF i > Len(P) THEN acc.idx
    ELSE Priority_Scan(P, done, t, i + 1, Priority_Visit(P, done, t, i, acc))

Priority_Select(P, done, t) ==
    Priority_Scan(P, done, t, 1, [idx |-> NoIdx, min |-> INT_MAX])

Priority_Begin == pc = "main" /\ choice = 3 /\ NP_Begin("PRIO")

Priority_Dispatch ==
    /\ pc = "PRIO" /\ completedCount < Len(procs)
    /\ Priority_Select(procs, completed, time) # NoIdx
    /\ NP_Dispatch(Priority_Select(procs, completed, time))

Priority_Idle ==
    /\ pc = "PRIO" /\ completedCount < Len(procs)
    /\ Priority_Select(procs, completed, time) = NoIdx
    /\ NP_Idle

Priority_End == pc = "PRIO" /\ NP_End

\* ------------------------------------------------------ Gantt clean-up
\* The merge post-pass of SRTF and RoundRobin (same code in both).
RECURSIVE MergeLoop(_, _, _, _)
MergeLoop(tl, bl, i, acc) ==
    IF i > Len(bl) THEN acc
    ELSE MergeLoop(tl, bl, i + 1,
           IF bl[i] # Last(acc.blocks)
           THEN [timeline |-> Append(acc.timeline, tl[i]),
                 blocks |-> Append(acc.blocks, bl[i])]
           ELSE acc)

\* Variant of Merge: the closing time mark is not appended.
Merge_NoClosingMark(tl, bl) ==
    IF bl = <<>> THEN [timeline |-> <<>>, blocks |-> <<>>]
    ELSE MergeLoop(tl, bl, 2, [timeline |-> <<tl[1]>>, blocks |-> <<bl[1]>>])

\* Variant of Merge: every block is kept, equal to its predecessor or not.
Merge_NoDedupe(tl, bl) ==
    IF bl = <<>> THEN [timeline |-> <<>>, blocks |-> <<>>]
    ELSE LET m == [timeline |-> SubSeq(tl, 1, Len(bl)), blocks |-> bl]
         IN IF Last(m.timeline) # Last(tl)
            THEN [m EXCEPT !.timeline = Append(m.timeline, Last(tl))]
            ELSE m

Merge(tl, bl) ==
    IF bl = <<>> THEN [timeline |-> <<>>, blocks |-> <<>>]
    ELSE LET m == MergeLoop(tl, bl, 2, [timeline |-> <<tl[1]>>, blocks |-> <<bl[1]>>])
         IN IF Last(m.timeline) # Last(tl)
            THEN [m EXCEPT !.timeline = Append(m.timeline, Last(tl))]
            ELSE m

\* The Gantt bookkeeping at the start of an execution step of SRTF / RoundRobin.
OpenBlock(cur) ==
    /\ blocks' = (IF cur # last_block_id THEN Append(blocks, cur) ELSE blocks)

OpenTimeline(tl, cur) ==
    IF cur # last_block_id /\ last_block_id # IDLE THEN Append(tl, time) ELSE tl

\* ---------------------------------------------------------------- SRTF
\* Variant of SRTF_Visit: the original burst is compared, not the remainder.
SRTF_Visit_ByBurst(P, t, i, acc) ==
    IF P[i].at <= t /\ P[i].rem_bt > 0
    THEN IF P[i].bt < acc.min
         THEN [idx |-> i, min |-> P[i].bt]
         ELSE IF P[i].bt = acc.min /\ acc.idx # NoIdx /\ P[i].at < P[acc.idx].at
              THEN [acc EXCEPT !.idx = i]
              ELSE acc
    ELSE acc

\* Variant of SRTF_Visit: a process is eligible before its arrival.
SRTF_Visit_IgnoresArrival(P, t, i, acc) ==
    IF P[i].rem_bt > 0
    THEN IF P[i].rem_bt < acc.min
         THEN [idx |-> i, min |-> P[i].rem_bt]
         ELSE IF P[i].rem_bt = acc.min /\ acc.idx # NoIdx /\ P[i].at < P[acc.idx].at
              THEN [acc EXCEPT !.idx = i]
              ELSE acc
    ELSE acc

\* The body of SRTF's selection loop for index i.
SRTF_Visit(P, t, i, acc) ==
    IF P[i].at <= t /\ P[i].rem_bt > 0
    THEN IF P[i].rem_bt < acc.min
         THEN [idx |-> i, min |-> P[i].rem_bt]
         ELSE IF P[i].rem_bt = acc.min /\ acc.idx # NoIdx /\ P[i].at < P[acc.idx].at
              THEN [acc EXCEPT !.idx = i]
              ELSE acc
    ELSE acc

RECURSIVE SRTF_Scan(_, _, _, _)
SRTF_Scan(P, t, i, acc) ==
    IF i > Len(P) THEN acc.idx
    ELSE SRTF_Scan(P, t, i + 1, SRTF_Visit(P, t, i, acc))

SRTF_Select(P, t) == SRTF_Scan(P, t, 1, [idx |-> NoIdx, min |-> INT_MAX])

\* SRTF's idle search: [next_arrival_time, found_next]
RECURSIVE SRTF_NextArrival(_, _, _)
SRTF_NextArrival(P, i, acc) ==
    IF i > Len(P) THEN acc
    ELSE SRTF_NextArrival(P, i + 1,
           IF P[i].rem_bt > 0
           THEN [next |-> Min(acc.next, P[i].at), found |-> TRUE]
           ELSE acc)

SRTF_Begin ==
    /\ pc = "main" /\ choice = 4
    /\ procs' = [i \in 1..Len(procs) |-> [procs[i] EXCEPT !.rem_bt = procs[i].bt]]
    /\ time' = 0
    /\ completedCount' = 0
    /\ timeline' = <<0>>
    /\ blocks' = <<>>
    /\ last_block_id' = NoBlock
    /\ pc' = "SRTF"
    /\ UNCHANGED <<choice, quantum, completed, idx, it, readyQueue, inQueue,
                   next_proc_to_arrive, pid_to_idx_size, oob, broke,
                   final_timeline, final_blocks, idleTime>>

\* one iteration that executes the selected process for one time unit
SRTF_Run ==
    /\ pc = "SRTF" /\ completedCount < Len(procs)
    /\ SRTF_Select(procs, time) # NoIdx
    /\ LET shortest_idx == SRTF_Select(procs, time)
           current_block_id == BlockId(procs[shortest_idx].pid)
           rem == procs[shortest_idx].rem_bt - 1
           tl == OpenTimeline(timeline, current_block_id)
       IN /\ idx' = shortest_idx
          /\ OpenBlock(current_block_id)
          /\ time' = time + 1
          /\ IF rem = 0
             THEN /\ completedCount' = completedCount + 1
                  /\ procs' = [procs EXCEPT ![shortest_idx] =
                                 Finalize([procs[shortest_idx] EXCEPT !.rem_bt = rem],
                                          time + 1)]
                  /\ timeline' = Append(tl, time + 1)
                  /\ last_block_id' = NoBlock
             ELSE /\ completedCount' = completedCount
                  /\ procs' = [procs EXCEPT ![shortest_idx].rem_bt = rem]
                  /\ timeline' = tl
                  /\ last_block_id' = current_block_id
    /\ UNCHANGED <<pc, choice, quantum, completed, it, readyQueue, inQueue,
                   next_proc_to_arrive, pid_to_idx_size, oob, broke,
                   final_timeline, final_blocks, idleTime>>

\* the trace after the loop of SRTF / RoundRobin, merged and printed
MergeAndPrint ==
    LET m == Merge(timeline, blocks) IN PrintResults(m.timeline, m.blocks)

\* Variant of PreemptiveIdle: the clock ticks by one instead of jumping to the
\* next arrival.
PreemptiveIdle_Tick(r) ==
    IF r.found
    THEN /\ blocks' = (IF last_block_id # IDLE THEN Append(blocks, IDLE) ELSE blocks)
         /\ timeline' = (IF last_block_id # IDLE THEN Append(timeline, time)
                         ELSE timeline)
         /\ time' = time + 1
         /\ last_block_id' = IDLE
         /\ UNCHANGED <<pc, broke, procs, final_timeline, final_blocks, idleTime>>
    ELSE /\ broke' = TRUE
         /\ MergeAndPrint
         /\ UNCHANGED <<blocks, timeline, time, last_block_id>>

\* the idle branch of SRTF / RoundRobin, given the search result r
PreemptiveIdle(r) ==
    IF r.found
    THEN /\ blocks' = (IF last_block_id # IDLE THEN Append(blocks, IDLE) ELSE blocks)
         /\ timeline' = (IF last_block_id # IDLE THEN Append(timeline, time)
                         ELSE timeline)
         /\ time' = r.next
         /\ last_block_id' = IDLE
         /\ UNCHANGED <<pc, broke, procs, final_timeline, final_blocks, idleTime>>
    ELSE /\ broke' = TRUE
         /\ MergeAndPrint
         /\ UNCHANGED <<blocks, timeline, time, last_block_id>>

SRTF_Idle ==
    /\ pc = "SRTF" /\ completedCount < Len(procs)
    /\ SRTF_Select(procs, time) = NoIdx
    /\ idx' = NoIdx
    /\ PreemptiveIdle(SRTF_NextArrival(procs, 1, [next |-> INT_MAX, found |-> FALSE]))
    /\ UNCHANGED <<choice, quantum, completedCount, completed, it, readyQueue,
                   inQueue, next_proc_to_arrive, pid_to_idx_size, oob>>

SRTF_End ==
    /\ pc = "SRTF" /\ completedCount >= Len(procs)
    /\ MergeAndPrint
    /\ UNCHANGED <<choice, quantum, time, completedCount, completed, idx, it,
                   timeline, blocks, last_block_id, readyQueue, inQueue,
                   next_proc_to_arrive, pid_to_idx_size, oob, broke>>

\* --------------------------------------------------------- Round Robin
\* The arrival loop (run at the top of the iteration and again after the
\* execution): st = [q, inq, npa] are readyQueue, inQueue, next_proc_to_arrive.
RECURSIVE AdmitLoop(_, _, _, _)
AdmitLoop(P, t, i, st) ==
    IF i > Len(P) THEN st
    ELSE IF P[i].at <= t /\ ~st.inq[i]
         THEN AdmitLoop(P, t, i + 1,
                [q |-> Append(st.q, i),
                 inq |-> [st.inq EXCEPT ![i] = TRUE],
                 npa |-> i + 1])
         ELSE IF P[i].at > t THEN st
              ELSE AdmitLoop(P, t, i + 1, st)

Admit(P, t, st) == AdmitLoop(P, t, st.npa, st)

RRState == [q |-> readyQueue, inq |-> inQueue, npa |-> next_proc_to_arrive]

\* RoundRobin's idle search: the first uncompleted process not yet admitted.
RECURSIVE RR_NextArrival(_, _)
RR_NextArrival(P, i) ==
    IF i > Len(P) THEN [next |-> INT_MAX, found |-> FALSE]
    ELSE IF P[i].rem_bt > 0 THEN [next |-> P[i].at, found |-> TRUE]
         ELSE RR_NextArrival(P, i + 1)

\* The prologue.  pid_to_idx has procs.back().pid + 1 entries; a write
\* pid_to_idx[pid] with pid beyond that is undefined behaviour, after which
\* the run either goes on or aborts (heap corruption, sanitizer).
RR_Begin ==
    /\ pc = "main" /\ choice = 5
    /\ \E sorted \in SortByAT(procs) :
         LET size == Last(sorted).pid + 1
             overflow == \E i \in 1..Len(sorted) : sorted[i].pid >= size
         IN /\ procs' = [i \in 1..Len(sorted) |->
                           [sorted[i] EXCEPT !.rem_bt = sorted[i].bt]]
            /\ pid_to_idx_size' = size
            /\ oob' = overflow
            /\ pc' \in (IF overflow THEN {"RR", "crashed"} ELSE {"RR"})
    /\ inQueue' = [i \in 1..Len(procs) |-> FALSE]
    /\ readyQueue' = <<>>
    /\ time' = 0
    /\ completedCount' = 0
    /\ timeline' = <<0>>
    /\ blocks' = <<>>
    /\ last_block_id' = NoBlock
    /\ next_proc_to_arrive' = 1
    /\ UNCHANGED <<choice, quantum, completed, idx, it, broke,
                   final_timeline, final_blocks, idleTime>>

\* Variant of RR_Run: the preempted process is put back in the queue before
\* the arrivals during its execution are admitted.
RR_Run_RequeueFirst ==
    /\ pc = "RR" /\ completedCount < Len(procs)
    /\ Admit(procs, time, RRState).q # <<>>
    /\ LET st1 == Admit(procs, time, RRState)
           current_proc_idx == Head(st1.q)
           execution_time == Min(quantum, procs[current_proc_idx].rem_bt)
           current_block_id == BlockId(procs[current_proc_idx].pid)
           rem == procs[current_proc_idx].rem_bt - execution_time
           t2 == time + execution_time
           tl == OpenTimeline(timeline, current_block_id)
           st2 == Admit(procs, t2,
                    [q |-> IF rem = 0 THEN Tail(st1.q)
                           ELSE Append(Tail(st1.q), current_proc_idx),
                     inq |-> [st1.inq EXCEPT ![current_proc_idx] = (rem # 0)],
                     npa |-> st1.npa])
       IN /\ idx' = current_proc_idx
          /\ OpenBlock(current_block_id)
          /\ time' = t2
          /\ next_proc_to_arrive' = st2.npa
          /\ timeline' = Append(tl, t2)
          /\ last_block_id' = NoBlock
          /\ readyQueue' = st2.q
          /\ inQueue' = st2.inq
          /\ IF rem = 0
             THEN /\ completedCount' = completedCount + 1
                  /\ procs' = [procs EXCEPT ![current_proc_idx] =
                                 Finalize([procs[current_proc_idx] EXCEPT !.rem_bt = rem],
                                          t2)]
             ELSE /\ completedCount' = completedCount
                  /\ procs' = [procs EXCEPT ![current_proc_idx].rem_bt = rem]
    /\ UNCHANGED <<pc, choice, quantum, completed, it, pid_to_idx_size, oob, broke,
                   final_timeline, final_blocks, idleTime>>

\* Variant of RR_Run: the dispatched process stays marked as queued.
RR_Run_KeepsInQueue ==
    /\ pc = "RR" /\ completedCount < Len(procs)
    /\ Admit(procs, time, RRState).q # <<>>
    /\ LET st1 == Admit(procs, time, RRState)
           current_proc_idx == Head(st1.q)
           execution_time == Min(quantum, procs[current_proc_idx].rem_bt)
           current_block_id == BlockId(procs[current_proc_idx].pid)
           rem == procs[current_proc_idx].rem_bt - execution_time
           t2 == time + execution_time
           tl == OpenTimeline(timeline, current_block_id)
           st2 == Admit(procs, t2,
                    [q |-> Tail(st1.q),
                     inq |-> st1.inq,
                     npa |-> st1.npa])
       IN /\ idx' = current_proc_idx
          /\ OpenBlock(current_block_id)
          /\ time' = t2
          /\ next_proc_to_arrive' = st2.npa
          /\ timeline' = Append(tl, t2)
          /\ last_block_id' = NoBlock
          /\ IF rem = 0
             THEN /\ completedCount' = completedCount + 1
                  /\ procs' = [procs EXCEPT ![current_proc_idx] =
                                 Finalize([procs[current_proc_idx] EXCEPT !.rem_bt = rem],
                                          t2)]
                  /\ readyQueue' = st2.q
                  /\ inQueue' = st2.inq
             ELSE /\ completedCount' = completedCount
                  /\ procs' = [procs EXCEPT ![current_proc_idx].rem_bt = rem]
                  /\ readyQueue' = Append(st2.q, current_proc_idx)
                  /\ inQueue' = [st2.inq EXCEPT ![current_proc_idx] = TRUE]
    /\ UNCHANGED <<pc, choice, quantum, completed, it, pid_to_idx_size, oob, broke,
                   final_timeline, final_blocks, idleTime>>

\* one iteration that dispatches the head of the ready queue
RR_Run ==
    /\ pc = "RR" /\ completedCount < Len(procs)
    /\ Admit(procs, time, RRState).q # <<>>
    /\ LET st1 == Admit(procs, time, RRState)
           current_proc_idx == Head(st1.q)
           execution_time == Min(quantum, procs[current_proc_idx].rem_bt)
           current_block_id == BlockId(procs[current_proc_idx].pid)
           rem == procs[current_proc_idx].rem_bt - execution_time
           t2 == time + execution_time
           tl == OpenTimeline(timeline, current_block_id)
           st2 == Admit(procs, t2,
                    [q |-> Tail(st1.q),
                     inq |-> [st1.inq EXCEPT ![current_proc_idx] = FALSE],
                     npa |-> st1.npa])
       IN /\ idx' = current_proc_idx
          /\ OpenBlock(current_block_id)
          /\ time' = t2
          /\ next_proc_to_arrive' = st2.npa
          /\ timeline' = Append(tl, t2)
          /\ last_block_id' = NoBlock
          /\ IF rem = 0
             THEN /\ completedCount' = completedCount + 1
                  /\ procs' = [procs EXCEPT ![current_proc_idx] =
                                 Finalize([procs[current_proc_idx] EXCEPT !.rem_bt = rem],
                                          t2)]
                  /\ readyQueue' = st2.q
                  /\ inQueue' = st2.inq
             ELSE /\ completedCount' = completedCount
                  /\ procs' = [procs EXCEPT ![current_proc_idx].rem_bt = rem]
                  /\ readyQueue' = Append(st2.q, current_proc_idx)
                  /\ inQueue' = [st2.inq EXCEPT ![current_proc_idx] = TRUE]
    /\ UNCHANGED <<pc, choice, quantum, completed, it, pid_to_idx_size, oob, broke,
                   final_timeline, final_blocks, idleTime>>

\* the sort by pid that precedes RoundRobin's clean-up, then the clean-up
RR_Finish ==
    LET m == Merge(timeline, blocks)
    IN /\ procs' = SortByPid(SortByPid(procs))
       /\ final_timeline' = m.timeline
       /\ final_blocks' = m.blocks
       /\ idleTime' = IdleSum(m.timeline, m.blocks, 1)
       /\ pc' = "done"

RR_Idle ==
    /\ pc = "RR" /\ completedCount < Len(procs)
    /\ Admit(procs, time, RRState).q = <<>>
    /\ LET st1 == Admit(procs, time, RRState)
           r == RR_NextArrival(procs, st1.npa)
       IN /\ idx' = NoIdx
          /\ readyQueue' = st1.q
          /\ inQueue' = st1.inq
          /\ next_proc_to_arrive' = st1.npa
          /\ IF r.found
             THEN PreemptiveIdle(r)
             ELSE /\ broke' = TRUE
                  /\ RR_Finish
                  /\ UNCHANGED <<blocks, timeline, time, last_block_id>>
    /\ UNCHANGED <<choice, quantum, completedCount, completed, it,
                   pid_to_idx_size, oob>>

RR_End ==
    /\ pc = "RR" /\ completedCount >= Len(procs)
    /\ RR_Finish
    /\ UNCHANGED <<choice, quantum, time, completedCount, completed, idx, it,
                   timeline, blocks, last_block_id, readyQueue, inQueue,
                   next_proc_to_arrive, pid_to_idx_size, oob, broke>>

Next ==
    \/ FCFS_Begin
    \/ FCFS_Step
    \/ FCFS_End
    \/ SJF_Begin
    \/ SJF_Dispatch
    \/ SJF_Idle
    \/ SJF_End
    \/ Priority_Begin
    \/ Priority_Dispatch
    \/ Priority_Idle
    \/ Priority_End
    \/ SRTF_Begin
    \/ SRTF_Run
    \/ SRTF_Idle
    \/ SRTF_End
    \/ RR_Begin
    \/ RR_Run
    \/ RR_Idle
    \/ RR_End

Spec == Init /\ [][Next]_vars

\* =================================================================
\* Properties
\* =================================================================
N == Len(procs)

\* the segment k of a trace is (bl[k], tl[k], tl[k+1])
RECURSIVE LabelTotal(_, _, _, _)
LabelTotal(tl, bl, label, k) ==
    IF k > Len(bl) \/ k + 1 > Len(tl) THEN 0
    ELSE (IF bl[k] = label THEN tl[k + 1] - tl[k] ELSE 0)
         + LabelTotal(tl, bl, label, k + 1)

MaxCompletion == CHOOSE m \in {procs[i].ct : i \in 1..N} :
                    \A i \in 1..N : procs[i].ct <= m

\* strict lexicographic order on triples of integers
Less3(a, b) ==
    \/ a[1] < b[1]
    \/ a[1] = b[1] /\ a[2] < b[2]
    \/ a[1] = b[1] /\ a[2] = b[2] /\ a[3] < b[3]

\* i is the minimum of the index set R under the key function
IsMinimum(i, R, key(_)) ==
    /\ i \in R
    /\ \A j \in R \ {i} : Less3(key(i), key(j))

\* ---- C1: every scheduler, on every valid input, runs its main loop to the
\* end with every process completed exactly once (completedCount = n, each
\* completion time recorded), and never leaves the loop through a 'break'.
C1_AllCompleted ==
    /\ pc # "crashed"
    /\ ~broke
    /\ completedCount <= N
    /\ pc = "done" =>
         /\ \A i \in 1..N : procs[i].ct > 0
         /\ choice # 1 => completedCount = N

\* ---- C2: once a scheduler has finished, every process has
\* completion >= arrival + burst, turnaround = completion - arrival and
\* waiting = completion - arrival - burst >= 0.
C2_Metrics ==
    pc = "done" =>
        \A i \in 1..N :
            LET p == procs[i]
            IN /\ p.ct >= p.at + p.bt
               /\ p.tat = p.ct - p.at
               /\ p.wt = p.ct - p.at - p.bt
               /\ p.wt >= 0

\* a finished run of at least two processes, one that waited and one that
\* did not
C2_Witness ==
    /\ pc = "done"
    /\ \E i, j \in 1..N : procs[i].wt > 0 /\ procs[j].wt = 0

\* ---- C3: in the trace handed to printResults, the segments labelled P_i
\* add up to burst_i, for every process i.
C3_BurstPerLabel ==
    pc = "done" =>
        \A i \in 1..N :
            LabelTotal(final_timeline, final_blocks, BlockId(procs[i].pid), 1)
                = procs[i].bt

\* ---- C4: every segment of the trace handed to printResults has
\* start < end: timeline[k] < timeline[k+1] for every index k of blocks.
C4_SegmentsNonEmpty ==
    pc = "done" =>
        \A k \in 1..Len(final_blocks) :
            /\ k + 1 <= Len(final_timeline)
            /\ final_timeline[k] < final_timeline[k + 1]

\* ---- C5: the final timeline has one more entry than the final blocks, is
\* non-decreasing, starts at 0 and ends at the largest completion time.
C5_CoversMakespan ==
    pc = "done" =>
        /\ Len(final_timeline) = Len(final_blocks) + 1
        /\ \A k \in 1..(Len(final_timeline) - 1) :
               final_timeline[k] <= final_timeline[k + 1]
        /\ final_timeline[1] = 0
        /\ Last(final_timeline) = MaxCompletion

\* a finished SRTF or Round Robin run whose clean-up dropped a block
C5_Witness ==
    /\ pc = "done"
    /\ choice \in {4, 5}
    /\ Len(final_timeline) < Len(timeline)
    /\ Len(final_blocks) >= 2

\* ---- C6: no two adjacent entries of the final blocks carry the same label.
C6_NoAdjacentRepeat ==
    pc = "done" =>
        \A k \in 1..(Len(final_blocks) - 1) : final_blocks[k] # final_blocks[k + 1]

\* a finished Round Robin run in which a process was dispatched twice in a
\* row, so the raw blocks had a repeat that the clean-up removed
C6_Witness ==
    /\ pc = "done"
    /\ choice = 5
    /\ \E k \in 1..(Len(blocks) - 1) : blocks[k] = blocks[k + 1]

\* ---- C7: FCFS runs the processes in the order of the input sorted by
\* (arrival, pid): the non-IDLE blocks are exactly that sequence.
FCFS_Expected ==
    CHOOSE s \in Perms(N) :
        \A i, j \in 1..N : i < j =>
            Less3(<<procs[s[i]].at, procs[s[i]].pid, 0>>,
                  <<procs[s[j]].at, procs[s[j]].pid, 0>>)

NotIdle(b) == b # IDLE

C7_FCFSOrder ==
    (pc = "done" /\ choice = 1) =>
        SelectSeq(final_blocks, NotIdle)
            = [i \in 1..N |-> BlockId(procs[FCFS_Expected[i]].pid)]

\* ---- C8: every SJF dispatch, made at clock t, runs the minimum under
\* (burst, arrival, pid) of the processes that have arrived by t and are
\* not completed.
SJF_Key(i) == <<procs[i].bt, procs[i].at, procs[i].pid>>

NP_Ready == {i \in 1..N : ~completed[i] /\ procs[i].at <= time}

Priority_Key(i) == <<procs[i].priority, procs[i].at, procs[i].pid>>

SRTF_Key(i) == <<procs[i].rem_bt, procs[i].at, procs[i].pid>>

SRTF_Ready == {i \in 1..N : procs[i].at <= time /\ procs[i].rem_bt > 0}

C10_SRTFRunsMinimum ==
    [][(pc = "SRTF" /\ time' = time + 1 /\ pc' = "SRTF" /\ idx' # NoIdx) =>
          /\ IsMinimum(idx', SRTF_Ready, SRTF_Key)
          /\ procs'[idx'].rem_bt = procs[idx'].rem_bt - 1
          /\ \A j \in 1..N : j # idx' => procs'[j].rem_bt = procs[j].rem_bt
          /\ (idx # NoIdx /\ procs[idx].rem_bt > 0) =>
                (idx' # idx <=>
                    \E j \in SRTF_Ready : Less3(SRTF_Key(j), SRTF_Key(idx)))]_vars

\* SRTF is running idx while another process, started earlier, is preempted
C10_Witness ==
    /\ pc = "SRTF"
    /\ idx # NoIdx
    /\ \E j \in 1..N :
          /\ j # idx
          /\ procs[j].rem_bt > 0
          /\ procs[j].rem_bt < procs[j].bt

\* position of x in the sequence q (0 when absent)
PosIn(q, x) ==
    IF \E k \in 1..Len(q) : q[k] = x
    THEN CHOOSE k \in 1..Len(q) : q[k] = x
    ELSE 0

\* a Round Robin iteration that dispatched a process
RR_DispatchStep == pc = "RR" /\ pc' = "RR" /\ idx' # NoIdx

C12_QuantumRespected ==
    [][RR_DispatchStep =>
          LET rem == procs[idx'].rem_bt
              run == IF quantum <= rem THEN quantum ELSE rem
          IN /\ time' - time = run
             /\ procs'[idx'].rem_bt = rem - run
             /\ run >= 1 /\ run <= quantum
             /\ (idx # NoIdx /\ idx' = idx) => readyQueue = <<idx>>]_vars

\* Round Robin has dispatched the same process twice in a row because the
\* other process, still uncompleted, had not arrived at the boundary
C12_Witness ==
    /\ pc = "RR"
    /\ idx # NoIdx
    /\ Len(blocks) >= 2
    /\ blocks[Len(blocks)] = BlockId(procs[idx].pid)
    /\ blocks[Len(blocks) - 1] = BlockId(procs[idx].pid)
    /\ \E j \in 1..N : j # idx /\ procs[j].rem_bt > 0

\* the indices of the final blocks that carry the label of process i
SegmentsOf(i) ==
    {k \in 1..Len(final_blocks) : final_blocks[k] = BlockId(procs[i].pid)}

\* ---- C13: under FCFS, SJF and PriorityScheduling every process has
\* exactly one segment in the final trace, and that segment is
\* [s, s + burst] with s >= arrival and completion = s + burst.
C13_OneSegmentPerProcess ==
    (pc = "done" /\ choice \in {1, 2, 3}) =>
        \A i \in 1..N :
            /\ Cardinality(SegmentsOf(i)) = 1
            /\ \A k \in SegmentsOf(i) :
                  /\ k + 1 <= Len(final_timeline)
                  /\ final_timeline[k] >= procs[i].at
                  /\ final_timeline[k + 1] = final_timeline[k] + procs[i].bt
                  /\ procs[i].ct = final_timeline[k + 1]

\* a finished non-preemptive run in which a process started after its
\* arrival, behind another one
C13_Witness ==
    /\ pc = "done"
    /\ choice \in {1, 2, 3}
    /\ \E i \in 1..N : \E k \in SegmentsOf(i) :
          k >= 2 /\ final_timeline[k] > procs[i].at

\* =================================================================
\* The documented scenarios S1..S6, each batch run under every policy
\* (Round Robin with the quantum of S5)
\* =================================================================
S1 == <<Process(1, 0, 5, 0), Process(2, 1, 3, 0), Process(3, 2, 8, 0)>>
S2 == <<Process(1, 2, 4, 0), Process(2, 3, 2, 0)>>
S3 == <<Process(1, 0, 4, 2), Process(2, 1, 3, 1), Process(3, 2, 1, 1)>>
S4 == <<Process(1, 0, 7, 0), Process(2, 2, 4, 0), Process(3, 4, 1, 0)>>
S5 == <<Process(1, 0, 5, 0), Process(2, 1, 3, 0), Process(3, 2, 2, 0)>>
S6 == <<Process(1, 10, 3, 0)>>

ScenarioInit ==
    /\ pc = "main"
    /\ choice \in 1..5
    /\ quantum = (IF choice = 5 THEN 2 ELSE 0)
    /\ procs \in {S1, S2, S3, S4, S5, S6}
    /\ time = 0
    /\ completedCount = 0
    /\ completed = <<>>
    /\ idx = NoIdx
    /\ it = 1
    /\ timeline = <<>>
    /\ blocks = <<>>
    /\ last_block_id = NoBlock
    /\ readyQueue = <<>>
    /\ inQueue = <<>>
    /\ next_proc_to_arrive = 1
    /\ pid_to_idx_size = 0
    /\ oob = FALSE
    /\ broke = FALSE
    /\ final_timeline = <<>>
    /\ final_blocks = <<>>
    /\ idleTime = 0

SpecScenarios == ScenarioInit /\ [][Next]_vars

\* the run was started on the batch B
IsBatch(B) ==
    /\ N = Len(B)
    /\ \A i \in 1..Len(B) : \E j \in 1..N :
          /\ procs[j].pid = B[i].pid
          /\ procs[j].at = B[i].at
          /\ procs[j].bt = B[i].bt
          /\ procs[j].priority = B[i].priority

\* the completion times, in pid order
Completions == [i \in 1..N |-> procs[CHOOSE j \in 1..N : procs[j].pid = i].ct]

\* ---- C14: SRTF on S4 hands printResults the trace
\* P1[0,2] P2[2,4] P3[4,5] P2[5,7] P1[7,12] and completes P1 at 12, P2 at 7,
\* P3 at 5.
C14_S4Trace ==
    (pc = "done" /\ choice = 4 /\ IsBatch(S4)) =>
        /\ final_blocks = <<"P1", "P2", "P3", "P2", "P1">>
        /\ final_timeline = <<0, 2, 4, 5, 7, 12>>
        /\ Completions = <<12, 7, 5>>

\* the pids waiting in the ready queue, head first
QueuePids == [k \in 1..Len(readyQueue) |-> procs[readyQueue[k]].pid]

\* a dispatch of process pid over [from, to]
RR_Runs(pid, from, to) == procs[idx'].pid = pid /\ time = from /\ time' = to

\* ---- C15 as stated: RoundRobin with quantum 2 on S5 leaves the queue
\* [P2,P3,P1] after dispatching P1 over [0,2], and ends with P2 running [8,9]
\* and P1 running [9,11], completing P1 at 11, P2 at 9 and P3 at 6.
C15_S5AsStated ==
    [][(choice = 5 /\ quantum = 2 /\ IsBatch(S5)) =>
          /\ (RR_DispatchStep /\ time = 0) =>
                RR_Runs(1, 0, 2) /\ QueuePids' = <<2, 3, 1>>
          /\ (RR_DispatchStep /\ time = 8) => RR_Runs(2, 8, 9)
          /\ (RR_DispatchStep /\ time = 9) =>
                RR_Runs(1, 9, 11) /\ completedCount' = N
          /\ pc' = "done" => Completions' = <<11, 9, 6>>]_vars

\* ---- C15 amended: RoundRobin with quantum 2 on S5 leaves the queue
\* [P2,P3,P1] after dispatching P1 over [0,2], and ends with P2 running [8,9]
\* and P1 running [9,10] as the last dispatch, completing P1 at 10, P2 at 9
\* and P3 at 6.
C15_S5RoundRobin ==
    [][(choice = 5 /\ quantum = 2 /\ IsBatch(S5)) =>
          /\ (RR_DispatchStep /\ time = 0) =>
                RR_Runs(1, 0, 2) /\ QueuePids' = <<2, 3, 1>>
          /\ (RR_DispatchStep /\ time = 8) => RR_Runs(2, 8, 9)
          /\ (RR_DispatchStep /\ time = 9) =>
                RR_Runs(1, 9, 10) /\ completedCount' = N
          /\ RR_DispatchStep => time <= 9
          /\ pc' = "done" => Completions' = <<10, 9, 6>>]_vars

C15_Witness ==
    /\ pc = "done" /\ choice = 5 /\ quantum = 2 /\ IsBatch(S5)
    /\ Completions = <<10, 9, 6>>
    /\ Len(final_blocks) = 6

\* the sum of the bursts of the first i processes
RECURSIVE BurstSum(_)
BurstSum(i) == IF i = 0 THEN 0 ELSE procs[i].bt + BurstSum(i - 1)

\* ---- C16: the idle time printResults reports is the time the CPU ran no
\* process, max(completion) minus the sum of all bursts, under every policy;
\* for the single process P1(arrival 10, burst 3) it is 10 and the trace is
\* IDLE[0,10] P1[10,13].
C16_IdleTime ==
    pc = "done" =>
        /\ idleTime = MaxCompletion - BurstSum(N)
        /\ IsBatch(S6) =>
              /\ idleTime = 10
              /\ final_blocks = <<"IDLE", "P1">>
              /\ final_timeline = <<0, 10, 13>>

\* =================================================================
\* main: the command-line driver in front of the schedulers
\* =================================================================
\* what `cin >> x` can deliver for an int: a number, or a failed extraction
Tokens(lo, hi) ==
    {[ok |-> TRUE, val |-> v] : v \in lo..hi} \cup {[ok |-> FALSE, val |-> 0]}

MainInit ==
    /\ pc = "start"
    /\ choice = 0
    /\ quantum = 0
    /\ procs = <<>>
    /\ time = 0
    /\ completedCount = 0
    /\ completed = <<>>
    /\ idx = NoIdx
    /\ it = 1
    /\ timeline = <<>>
    /\ blocks = <<>>
    /\ last_block_id = NoBlock
    /\ readyQueue = <<>>
    /\ inQueue = <<>>
    /\ next_proc_to_arrive = 1
    /\ pid_to_idx_size = 0
    /\ oob = FALSE
    /\ broke = FALSE
    /\ final_timeline = <<>>
    /\ final_blocks = <<>>
    /\ idleTime = 0

\* main reads n, then arrival, burst and priority of each process, and returns 1
\* at the first value that fails to parse or is out of range; procs_input
\* holds the processes read before that.
Main_ReadBatch ==
    /\ pc = "start"
    /\ \E n \in Tokens(-1, MaxN) :
         IF ~n.ok \/ n.val <= 0
         THEN /\ pc' = "exit_1"
              /\ procs' = procs
         ELSE \E a \in [1..n.val -> Tokens(-1, MaxAT)],
                 b \in [1..n.val -> Tokens(0, MaxBT)],
                 p \in [1..n.val -> Tokens(-1, MaxPri)] :
                LET bad == {i \in 1..n.val :
                               \/ ~a[i].ok \/ a[i].val < 0
                               \/ ~b[i].ok \/ b[i].val <= 0
                               \/ ~p[i].ok \/ p[i].val < 0}
                    read == IF bad = {} THEN n.val
                            ELSE (CHOOSE i \in bad : \A j \in bad : i <= j) - 1
                IN /\ procs' = [i \in 1..read |->
                                  Process(i, a[i].val, b[i].val, p[i].val)]
                   /\ pc' = IF bad = {} THEN "choose" ELSE "exit_1"
    /\ UNCHANGED <<choice, quantum, time, completedCount, completed, idx, it,
                   timeline, blocks, last_block_id, readyQueue, inQueue,
                   next_proc_to_arrive, pid_to_idx_size, oob, broke,
                   final_timeline, final_blocks, idleTime>>

\* main reads the selector and, for Round Robin, the quantum, then calls the
\* scheduler; any other selector prints "Invalid choice." and falls through
\* to `return 0`.
Main_Choice ==
    /\ pc = "choose"
    /\ \E c \in Tokens(0, 6) :
         IF ~c.ok
         THEN /\ pc' = "exit_1"
              /\ UNCHANGED <<choice, quantum>>
         ELSE /\ choice' = c.val
              /\ IF c.val \in 1..4
                 THEN /\ pc' = "main"
                      /\ quantum' = quantum
                 ELSE IF c.val = 5
                 THEN \E q \in Tokens(-1, MaxQuantum) :
                        /\ quantum' = q.val
                        /\ pc' = IF ~q.ok \/ q.val <= 0 THEN "exit_1" ELSE "main"
                 ELSE /\ pc' = "exit_0"
                      /\ quantum' = quantum
    /\ UNCHANGED <<procs, time, completedCount, completed, idx, it,
                   timeline, blocks, last_block_id, readyQueue, inQueue,
                   next_proc_to_arrive, pid_to_idx_size, oob, broke,
                   final_timeline, final_blocks, idleTime>>

\* the scheduler has returned: `return 0`
Main_Return ==
    /\ pc = "done"
    /\ pc' = "exit_0"
    /\ UNCHANGED <<choice, quantum, procs, time, completedCount, completed, idx,
                   it, timeline, blocks, last_block_id, readyQueue, inQueue,
                   next_proc_to_arrive, pid_to_idx_size, oob, broke,
                   final_timeline, final_blocks, idleTime>>

MainNext ==
    \/ Main_ReadBatch
    \/ Main_Choice
    \/ Main_Return
    \/ Next

SpecMain == MainInit /\ [][MainNext]_vars

\* a batch main accepts
ValidBatch ==
    /\ N >= 1
    /\ \A i \in 1..N :
          procs[i].at >= 0 /\ procs[i].bt > 0 /\ procs[i].priority >= 0

\* no scheduler has started
NothingRan == timeline = <<>> /\ blocks = <<>> /\ final_blocks = <<>>

\* ---- C17: main exits with code 1, having run no scheduler, on every invalid
\* input (n <= 0, arrival < 0, burst <= 0, priority < 0, a selector outside
\* 1..5, quantum <= 0 for Round Robin), and exits with code 0 only after a
\* scheduler ran on valid input.
C17_ExitCodes ==
    [][/\ pc = "start" =>
             \/ pc' = "exit_1" /\ NothingRan'
             \/ pc' = "choose" /\ ValidBatch'
       /\ pc = "choose" =>
             \/ pc' = "exit_1" /\ NothingRan'
             \/ /\ pc' = "main"
                /\ choice' \in 1..5
                /\ choice' = 5 => quantum' >= 1
       /\ pc' = "exit_0" => pc = "done" /\ final_blocks # <<>>
       /\ pc' = "exit_1" => pc \in {"start", "choose"}]_vars

\* =================================================================
\* Idle handling, remaining time and the clock
\* =================================================================
\* the processes that have not completed yet
Uncompleted == {i \in 1..N : procs[i].ct = 0}

\* the smallest arrival among the uncompleted processes
EarliestPending ==
    CHOOSE m \in {procs[i].at : i \in Uncompleted} :
        \A i \in Uncompleted : m <= procs[i].at

\* the loops that take an idle jump as an iteration of its own
IdleLoops == {"SJF", "PRIO", "SRTF", "RR"}

\* an iteration in which no process ran
IdleStep == pc \in IdleLoops /\ pc' = pc /\ procs' = procs

\* the previous iteration was an idle jump
JustIdled == pc \in IdleLoops /\ blocks # <<>> /\ Last(blocks) = IDLE

\* ---- C18: an IDLE step is taken at clock t only when no uncompleted process
\* has arrival <= t, it sets the clock to the smallest arrival among the
\* uncompleted processes, and the step after it dispatches a process (FCFS
\* jumps and dispatches within one iteration).
C18_WorkConserving ==
    [][/\ IdleStep =>
             /\ Uncompleted # {}
             /\ \A i \in Uncompleted : procs[i].at > time
             /\ time' = EarliestPending
             /\ ~JustIdled
             /\ Last(blocks') = IDLE
       /\ JustIdled =>
             /\ pc' = pc
             /\ idx' \in Uncompleted
             /\ procs[idx'].at <= time
             /\ procs' # procs
             /\ Last(blocks') = BlockId(procs[idx'].pid)
       /\ (pc = "FCFS" /\ pc' = "FCFS" /\ Len(blocks') = Len(blocks) + 2) =>
             /\ \A i \in Uncompleted : procs[i].at > time
             /\ blocks'[Len(blocks) + 1] = IDLE
             /\ timeline'[Len(timeline) + 1] = EarliestPending
             /\ Last(blocks') = BlockId(procs[it].pid)
             /\ procs[it].at = EarliestPending]_vars

\* an idle jump in the middle of a run, followed by a dispatch
C18_Witness ==
    /\ pc \in IdleLoops \cup {"FCFS"}
    /\ \E k \in 2..(Len(blocks) - 1) : blocks[k] = IDLE /\ blocks[k + 1] # IDLE

\* ---- C19: in SRTF and RoundRobin 0 <= remaining <= burst in every state,
\* remaining never increases, it decreases only for the dispatched process,
\* which has arrived and has remaining > 0, and the completion time is written
\* exactly once, with the clock of the step in which remaining becomes 0.
C19_Remaining ==
    [][/\ (pc' \in {"SRTF", "RR"} \/ (pc' = "done" /\ choice \in {4, 5})) =>
             \A i \in 1..N : 0 <= procs'[i].rem_bt /\ procs'[i].rem_bt <= procs'[i].bt
       /\ (pc \in {"SRTF", "RR"} /\ pc' = pc) =>
             \A i \in 1..N :
                /\ procs'[i].rem_bt <= procs[i].rem_bt
                /\ procs'[i].rem_bt < procs[i].rem_bt =>
                      /\ i = idx'
                      /\ procs[i].at <= time
                      /\ procs[i].rem_bt > 0
                /\ (procs[i].rem_bt > 0 /\ procs'[i].rem_bt = 0) =>
                      procs'[i].ct = time' /\ procs[i].ct = 0
                /\ procs'[i].ct # procs[i].ct =>
                      procs[i].rem_bt > 0 /\ procs'[i].rem_bt = 0
       /\ (pc \in {"SRTF", "RR"} /\ pc' = "done") =>
             \A i \in 1..N : \E j \in 1..N :
                /\ procs'[j].pid = procs[i].pid
                /\ procs'[j].ct = procs[i].ct
                /\ procs'[j].rem_bt = procs[i].rem_bt]_vars

\* a preempted process waits while another one has completed
C19_Witness ==
    /\ pc \in {"SRTF", "RR"}
    /\ \E i, j \in 1..N :
          /\ 0 < procs[i].rem_bt /\ procs[i].rem_bt < procs[i].bt
          /\ procs[j].rem_bt = 0 /\ procs[j].ct > procs[j].at
          /\ idx = j

\* the loops of the five schedulers
Loops == IdleLoops \cup {"FCFS"}

\* ---- C20: the clock is 0 when a scheduler starts, it strictly increases on
\* every iteration of the scheduler's loop, and it never decreases.
C20_ClockAdvances ==
    [][/\ (pc = "main" /\ pc' \in Loops) => time' = 0
       /\ (pc \in Loops /\ pc' = pc) => time' > time
       /\ time' >= time]_vars

\* the clock has advanced by an idle jump and by a dispatch
C20_Witness ==
    /\ pc \in Loops
    /\ time > 0
    /\ \E k \in 1..Len(blocks) : blocks[k] = IDLE
    /\ \E k \in 1..Len(blocks) : blocks[k] # IDLE

\* =================================================================
\* RoundRobin's ready queue and its pid-indexed array
\* =================================================================
\* how many times index i is in the ready queue
QueuedTimes(i) == Cardinality({k \in 1..Len(readyQueue) : readyQueue[k] = i})

\* ---- C21: at the top of every iteration of RoundRobin's loop the ready
\* queue holds exactly the admitted (index < next_proc_to_arrive) uncompleted
\* processes, each once: no index twice, no completed process, no process
\* with arrival > clock, and inQueue[i] is true exactly for the queued indices.
C21_ReadyQueue ==
    pc = "RR" =>
        /\ \A k \in 1..Len(readyQueue) : readyQueue[k] \in 1..N
        /\ \A i \in 1..N :
              /\ QueuedTimes(i) =
                    (IF i < next_proc_to_arrive /\ procs[i].rem_bt > 0 THEN 1 ELSE 0)
              /\ QueuedTimes(i) > 0 => procs[i].at <= time /\ procs[i].ct = 0
              /\ inQueue[i] <=> QueuedTimes(i) > 0

\* a preempted process is back in the queue, another one has completed
C21_Witness ==
    /\ pc = "RR"
    /\ \E i, j \in 1..N :
          /\ QueuedTimes(i) = 1
          /\ 0 < procs[i].rem_bt /\ procs[i].rem_bt < procs[i].bt
          /\ procs[j].rem_bt = 0 /\ procs[j].ct > 0 /\ j < next_proc_to_arrive

\* ---- C22: for every valid input with pids 1..n in any arrival pattern,
\* every write pid_to_idx[procs[i].pid] of RoundRobin is within the array,
\* whose length is the pid of the last process in arrival order plus 1.
C22_WritesInBounds ==
    (choice = 5 /\ pc # "main") =>
        /\ pc = "RR" => pid_to_idx_size = Last(procs).pid + 1
        /\ \A i \in 1..N : procs[i].pid < pid_to_idx_size
        /\ ~oob
====
